---- MODULE Spec2Model ----
(***************************************************************************)
(* Model of the aggregation layer of the chess-openings dashboard          *)
(* (src/src/scripts/preprocess.js): opening-name canonicalization,         *)
(* top-N ranking, outcome percentages, Elo binning.                        *)
(*                                                                         *)
(* Strings are sequences of one-character strings.  The token              *)
(* "variation" stands for that nine-letter word.  JavaScript objects used  *)
(* as dictionaries are sequences of entries in insertion order (no opening *)
(* name of the model is an integer-like key, so Object.entries returns     *)
(* insertion order).  Array.prototype.sort is stable (ES2019).             *)
(***************************************************************************)
EXTENDS Integers, Sequences, FiniteSets, TLC

VARIABLES
  data,      \* the record array handed to the aggregation function
  op,        \* the function whose result is held ("none": no call pending)
  arg,       \* the arguments of that call
  result,    \* the value the call returned
  bounds,    \* minElo / maxElo computed during the call
  name,      \* an opening name being canonicalized
  passes,    \* how many times `name` went through a canonicalization
  thrown,    \* the exception the last call raised ("none": it returned)
  csv,       \* the rows of games.csv as d3.csv parsed them
  filters,   \* state.filters
  controls,  \* the filter controls of the page
  shown,     \* filteredData, the records the visualizations last drew
  applied,   \* for each row, the estimation formulas that ran on it
  edits,     \* how many times the user changed a control
  chart,     \* the paginated visualization on screen ("none": no chart)
  fullData,  \* the complete list the chart pages through
  itemsPerPage,
  currentPage,
  isShowingVictory,  \* the chart type the stacked-bar toggle selected
  winLegend,         \* style.display of #viz2-legend
  victoryLegend,     \* style.display of #viz2-victory-legend
  transitions,       \* the running d3 transitions, oldest first
  clicks             \* how many times the user clicked a chart button

\* the page around state.data
\* the visualizations' own state
chartVars == <<chart, fullData, itemsPerPage, currentPage, isShowingVictory,
               winLegend, victoryLegend, transitions, clicks>>

uiVars == <<csv, filters, controls, shown, applied, edits, chartVars>>

\* what the aggregation callers leave alone
pageVars == <<thrown, uiVars>>

vars == <<data, op, arg, result, bounds, name, passes, pageVars>>

\* no chart is on screen
ChartIdle ==
  /\ chart = "none"
  /\ fullData = <<>>
  /\ itemsPerPage = 0
  /\ currentPage = 0
  /\ isShowingVictory = FALSE
  /\ winLegend = ""
  /\ victoryLegend = ""
  /\ transitions = <<>>
  /\ clicks = 0

\* no call has thrown and no page is open
PageIdle ==
  /\ ChartIdle
  /\ thrown = "none"
  /\ csv = <<>>
  /\ filters = <<>>
  /\ controls = <<>>
  /\ shown = <<>>
  /\ applied = <<>>
  /\ edits = 0

(***************************************************************************)
(* Bounds of the model                                                     *)
(***************************************************************************)
MaxLen == 4          \* longest raw opening name of SpecNorm
MaxRank == 3         \* records of a dataset that varies the opening name
MaxOutcome == 2      \* records of a dataset that varies the outcome
MaxElo == 2          \* records of a dataset that varies the ratings
MaxN == 3            \* largest numeric top-N argument

(***************************************************************************)
(* Strings                                                                 *)
(***************************************************************************)
Alphabet == {"a", " ", "#", "1", ":", "|"}
Digits == {"0", "1", "2", "3", "4", "5", "6", "7", "8", "9"}
Delimiters == {":", "|"}

Front(s) == SubSeq(s, 1, Len(s) - 1)
Last(s) == s[Len(s)]

Min2(a, b) == IF a <= b THEN a ELSE b

\* s.split(/[:|]/): the parts between the delimiters, in order
RECURSIVE Split(_)
Split(s) ==
  IF \A i \in 1..Len(s) : s[i] \notin Delimiters
    THEN <<s>>
    ELSE LET k == CHOOSE i \in 1..Len(s) :
                    /\ s[i] \in Delimiters
                    /\ \A j \in 1..(i - 1) : s[j] \notin Delimiters
         IN <<SubSeq(s, 1, k - 1)>> \o Split(SubSeq(s, k + 1, Len(s)))

RECURSIVE TrimStart(_)
TrimStart(s) == IF s # <<>> /\ Head(s) = " " THEN TrimStart(Tail(s)) ELSE s

RECURSIVE TrimEnd(_)
TrimEnd(s) == IF s # <<>> /\ Last(s) = " " THEN TrimEnd(Front(s)) ELSE s

\* String.prototype.trim
Trim(s) == TrimEnd(TrimStart(s))

RECURSIVE TrailingDigits(_)
TrailingDigits(s) ==
  IF s # <<>> /\ Last(s) \in Digits THEN 1 + TrailingDigits(Front(s)) ELSE 0

\* s.replace(/#\d+$/, ''): drops a '#' followed by one or more digits that
\* end the string
StripMarker(s) ==
  LET k == TrailingDigits(s)
  IN IF k > 0 /\ Len(s) > k /\ s[Len(s) - k] = "#"
       THEN SubSeq(s, 1, Len(s) - k - 1)
       ELSE s

\* getAllOpeningNames: split, replace, trim
CleanNameAll(raw) == Trim(StripMarker(Split(raw)[1]))

\* getTopNOpenings and the other aggregations: split, trim, replace
CleanName(raw) == StripMarker(Trim(Split(raw)[1]))

\* getNOpeningVariations: split, trim, replace, trim
CleanNameVariations(raw) == Trim(StripMarker(Trim(Split(raw)[1])))

(***************************************************************************)
(* JavaScript values                                                       *)
(***************************************************************************)
\* A number that Math.min / Math.max may return: finite, Infinity (inf = 1)
\* or -Infinity (inf = -1)
Finite(v) == [inf |-> 0, v |-> v]
PosInf == [inf |-> 1, v |-> 0]
NegInf == [inf |-> -1, v |-> 0]

\* Math.min(...xs) and Math.max(...xs); xs is the set of the values spread
MathMin(xs) ==
  IF xs = {} THEN PosInf ELSE Finite(CHOOSE x \in xs : \A y \in xs : x <= y)

MathMax(xs) ==
  IF xs = {} THEN NegInf ELSE Finite(CHOOSE x \in xs : \A y \in xs : x >= y)

\* Math.floor(x / 100) * 100 and Math.ceil(x / 100) * 100, where the number
\* x is held as the integer x.v = unit * x (unit 2 for an average of two
\* integer ratings, which may be a half-integer)
FloorHundred(x, unit) ==
  IF x.inf # 0 THEN x ELSE Finite((x.v \div (100 * unit)) * 100)

CeilHundred(x, unit) ==
  IF x.inf # 0 THEN x ELSE Finite((0 - ((0 - x.v) \div (100 * unit))) * 100)

\* (count / total) * 100 as the exact fraction num / den; den = 0 stands for
\* the NaN (0 / 0) or Infinity (count / 0) that JavaScript produces
Ratio100(count, total) == [num |-> count * 100, den |-> total]
Zero == [num |-> 0, den |-> 1]

\* Variant of GuardedPct: the division without the guard on the total
UnguardedPct(count, total) == Ratio100(count, total)

\* stats.total ? (count / stats.total) * 100 : 0
GuardedPct(count, total) == IF total # 0 THEN Ratio100(count, total) ELSE Zero

\* The argument n of a top-N function
Number(v) == [kind |-> "number", v |-> v]
Null == [kind |-> "null", v |-> 0]
Undefined == [kind |-> "undefined", v |-> 0]

\* array.slice(0, n): undefined means the length, null converts to 0
Slice0(s, n) ==
  LET end == CASE n.kind = "undefined" -> Len(s)
               [] n.kind = "null" -> 0
               [] OTHER -> Min2(n.v, Len(s))
  IN SubSeq(s, 1, end)

\* array.sort((a, b) => Key(b) - Key(a)): stable, descending by key
RECURSIVE InsertDesc(_, _)
InsertDesc(sorted, p) ==
  IF sorted = <<>> THEN <<p>>
  ELSE IF Head(sorted)[1] >= p[1]
         THEN <<Head(sorted)>> \o InsertDesc(Tail(sorted), p)
         ELSE <<p>> \o sorted

RECURSIVE SortPairsDesc(_)
SortPairsDesc(ps) ==
  IF ps = <<>> THEN <<>> ELSE InsertDesc(SortPairsDesc(Front(ps)), Last(ps))

\* keys[i] is the sort key of items[i]
SortDesc(items, keys) ==
  LET sorted == SortPairsDesc([i \in 1..Len(items) |-> <<keys[i], items[i]>>])
  IN [i \in 1..Len(items) |-> sorted[i][2]]

\* a.localeCompare(b) <= 0 on the characters of the model: white space,
\* punctuation and symbols sort before digits, digits before letters
LocaleRank(c) ==
  CASE c = " " -> 0 [] c = ":" -> 1 [] c = "#" -> 2 [] c = "|" -> 3
    [] c \in Digits -> 4
    [] c = "a" -> 5 [] c = "b" -> 6 [] c = "variation" -> 7 [] OTHER -> 8

RECURSIVE LocaleLeq(_, _)
LocaleLeq(a, b) ==
  IF a = <<>> THEN TRUE
  ELSE IF b = <<>> THEN FALSE
  ELSE IF LocaleRank(Head(a)) # LocaleRank(Head(b))
         THEN LocaleRank(Head(a)) < LocaleRank(Head(b))
         ELSE LocaleLeq(Tail(a), Tail(b))

\* array.sort((a, b) => a.localeCompare(b)) on an array of names: stable
RECURSIVE InsertByName(_, _)
InsertByName(sorted, nm) ==
  IF sorted = <<>> THEN <<nm>>
  ELSE IF LocaleLeq(Head(sorted), nm)
         THEN <<Head(sorted)>> \o InsertByName(Tail(sorted), nm)
         ELSE <<nm>> \o sorted

RECURSIVE SortNames(_)
SortNames(ns) ==
  IF ns = <<>> THEN <<>> ELSE InsertByName(SortNames(Front(ns)), Last(ns))

\* [...new Set(xs)]: the distinct elements in the order of first occurrence
RECURSIVE Distinct(_)
Distinct(xs) ==
  IF xs = <<>> THEN <<>>
  ELSE LET front == Distinct(Front(xs))
       IN IF \E i \in 1..Len(front) : front[i] = Last(xs)
            THEN front
            ELSE Append(front, Last(xs))

\* Entries of a dictionary keyed by opening name
HasKey(acc, nm) == \E i \in 1..Len(acc) : acc[i].name = nm
Lookup(acc, nm) == acc[CHOOSE i \in 1..Len(acc) : acc[i].name = nm]
Names(acc) == [i \in 1..Len(acc) |-> acc[i].name]

(***************************************************************************)
(* Game records and the datasets of the model                              *)
(***************************************************************************)
\* the value of a field that the record does not have
Absent == "undefined"

BaseGame ==
  [opening_name |-> <<"a">>, winner |-> "white", victory_status |-> "mate",
   rated |-> [type |-> "boolean", text |-> "true"],
   white_rating |-> 1520, black_rating |-> 1540,
   turns |-> 40, opening_ply |-> 4,
   increment_code |-> <<"5", "+", "0">>,
   created_at |-> 1000, last_move_at |-> 301000,
   time_control |-> Absent, estimated_time_control |-> "Blitz"]

NamePool ==
  { <<"a">>, <<"b">>, <<"a", ":", "x">>, <<"b", " ", "#", "1">> }

Outcomes ==
  { <<"white", "mate">>, <<"black", "resign">>, <<"draw", "draw">>,
    <<"white", "outoftime">> }

RatingPairs ==
  { <<1020, 1060>>, <<1050, 1180>>, <<1099, 1100>>, <<1100, 1300>> }

RankGames == {[BaseGame EXCEPT !.opening_name = nm] : nm \in NamePool}

OutcomeGames ==
  {[BaseGame EXCEPT !.opening_name = nm, !.winner = o[1],
                    !.victory_status = o[2]] :
     nm \in {<<"a">>, <<"b", "|", "variation">>}, o \in Outcomes}

EloGames ==
  {[BaseGame EXCEPT !.opening_name = nm,
                    !.white_rating = r[1], !.black_rating = r[2]] :
     nm \in {<<"a">>, <<"b">>}, r \in RatingPairs}

SeqsUpTo(S, n) == UNION {[1..k -> S] : k \in 0..n}

\* A dataset varies the opening names, the outcomes or the ratings
DataSets ==
  SeqsUpTo(RankGames, MaxRank) \cup SeqsUpTo(OutcomeGames, MaxOutcome)
    \cup SeqsUpTo(EloGames, MaxElo)

(***************************************************************************)
(* The aggregation functions of preprocess.js                              *)
(***************************************************************************)
getAllOpeningNames(d) ==
  SortNames(Distinct([i \in 1..Len(d) |-> CleanNameAll(d[i].opening_name)]))

\* acc[name] = (acc[name] || 0) + 1
CountName(acc, nm) ==
  IF HasKey(acc, nm)
    THEN [i \in 1..Len(acc) |->
            IF acc[i].name = nm THEN [acc[i] EXCEPT !.count = @ + 1] ELSE acc[i]]
    ELSE Append(acc, [name |-> nm, count |-> 1])

\* data.reduce / data.forEach counting the games of each opening family
RECURSIVE CountOpenings(_)
CountOpenings(d) ==
  IF d = <<>> THEN <<>>
  ELSE CountName(CountOpenings(Front(d)), CleanName(Last(d).opening_name))

\* The sort keys of an array of entries: b[1] - a[1] and b.total - a.total
ByCount(es) == [i \in 1..Len(es) |-> es[i].count]
ByTotal(es) == [i \in 1..Len(es) |-> es[i].total]

\* Variant of RankOpenings: the entries left in insertion order
RankOpeningsUnsorted(d) == CountOpenings(d)

\* Object.entries(openings).sort((a, b) => b[1] - a[1])
RankOpenings(d) == SortDesc(CountOpenings(d), ByCount(CountOpenings(d)))

getTopNOpenings(d, n) == Slice0(RankOpenings(d), n)

\* Variant of AddWinner: a drawn game is counted in the total only
AddWinnerWithoutDraws(stats, g) ==
  [stats EXCEPT !.total = @ + 1,
                !.whiteWins = IF g.winner = "white" THEN @ + 1 ELSE @,
                !.blackWins = IF g.winner = "black" THEN @ + 1 ELSE @]

\* One game counted in the white / black / draw counters of its bucket
AddWinner(stats, g) ==
  [stats EXCEPT !.total = @ + 1,
                !.whiteWins = IF g.winner = "white" THEN @ + 1 ELSE @,
                !.blackWins = IF g.winner = "black" THEN @ + 1 ELSE @,
                !.draws = IF g.winner = "draw" THEN @ + 1 ELSE @]

\* One game counted in the victory-status counters of its bucket
AddStatus(stats, g) ==
  [stats EXCEPT !.total = @ + 1,
                !.mate = IF g.victory_status = "mate" THEN @ + 1 ELSE @,
                !.resign = IF g.victory_status = "resign" THEN @ + 1 ELSE @,
                !.outoftime = IF g.victory_status = "outoftime" THEN @ + 1 ELSE @,
                !.draw = IF g.victory_status = "draw" THEN @ + 1 ELSE @]

NoWins(nm) ==
  [name |-> nm, total |-> 0, whiteWins |-> 0, blackWins |-> 0, draws |-> 0]

NoStatus(nm) ==
  [name |-> nm, total |-> 0, mate |-> 0, resign |-> 0, outoftime |-> 0,
   draw |-> 0]

\* if (!openings[name]) openings[name] = {...zeros}
Ensure(acc, fresh) == IF HasKey(acc, fresh.name) THEN acc ELSE Append(acc, fresh)

RECURSIVE TallyWinners(_)
TallyWinners(d) ==
  IF d = <<>> THEN <<>>
  ELSE LET g == Last(d)
           nm == CleanName(g.opening_name)
           acc == Ensure(TallyWinners(Front(d)), NoWins(nm))
       IN [i \in 1..Len(acc) |->
             IF acc[i].name = nm THEN AddWinner(acc[i], g) ELSE acc[i]]

RECURSIVE TallyStatus(_)
TallyStatus(d) ==
  IF d = <<>> THEN <<>>
  ELSE LET g == Last(d)
           nm == CleanName(g.opening_name)
           acc == Ensure(TallyStatus(Front(d)), NoStatus(nm))
       IN [i \in 1..Len(acc) |->
             IF acc[i].name = nm THEN AddStatus(acc[i], g) ELSE acc[i]]

WinnerPcts(stats) ==
  [name |-> stats.name, total |-> stats.total,
   whiteWinPct |-> Ratio100(stats.whiteWins, stats.total),
   blackWinPct |-> Ratio100(stats.blackWins, stats.total),
   drawPct |-> Ratio100(stats.draws, stats.total)]

StatusPcts(stats) ==
  [name |-> stats.name, total |-> stats.total,
   matePct |-> Ratio100(stats.mate, stats.total),
   resignPct |-> Ratio100(stats.resign, stats.total),
   outoftimePct |-> Ratio100(stats.outoftime, stats.total),
   drawPct |-> Ratio100(stats.draw, stats.total)]

\* n is not used: every opening family is returned
getTopNOpeningsWinners(d, n) ==
  LET tally == TallyWinners(d)
      entries == [i \in 1..Len(tally) |-> WinnerPcts(tally[i])]
  IN SortDesc(entries, ByTotal(entries))

getTopNOpeningsWithResults(d, n) ==
  LET tally == TallyStatus(d)
      entries == [i \in 1..Len(tally) |-> StatusPcts(tally[i])]
  IN SortDesc(entries, ByTotal(entries))

\* (d.white_rating + d.black_rating) / 2, held as twice its value
AverageRating2(g) == g.white_rating + g.black_rating

\* Variant of EloBounds: an empty set of ratings gets the band 0-99
EloBoundsDefaulted(elos, unit) ==
  IF elos = {} THEN [min |-> Finite(0), max |-> Finite(100)]
  ELSE [min |-> FloorHundred(MathMin(elos), unit),
        max |-> CeilHundred(MathMax(elos), unit)]

\* minElo and maxElo of a set of numbers held as unit times their value
EloBounds(elos, unit) ==
  [min |-> FloorHundred(MathMin(elos), unit),
   max |-> CeilHundred(MathMax(elos), unit)]

\* for (let elo = minElo; elo < maxElo; elo += 100): the values elo takes.
\* With minElo = Infinity or maxElo = -Infinity the loop body never runs.
BandStarts(b) ==
  IF b.min.inf # 0 \/ b.max.inf # 0
    THEN <<>>
    ELSE [i \in 1..((b.max.v - b.min.v) \div 100) |-> b.min.v + 100 * (i - 1)]

\* the key `${elo}-${elo + 99}`
RangeKey(elo) == [lo |-> elo, hi |-> elo + 99]

GuardedWinnerPcts(stats) ==
  [name |-> stats.name, total |-> stats.total,
   whiteWinPct |-> GuardedPct(stats.whiteWins, stats.total),
   blackWinPct |-> GuardedPct(stats.blackWins, stats.total),
   drawPct |-> GuardedPct(stats.draws, stats.total)]

\* new Set(...): the opening families by descending count; n is not used
TopOpeningsOfWinRate(d, n) == Names(RankOpenings(d))

WinRateFiltered(d, n) ==
  LET top == TopOpeningsOfWinRate(d, n)
      Kept(g) == \E i \in 1..Len(top) : top[i] = CleanName(g.opening_name)
  IN SelectSeq(d, Kept)

WinRateBounds(d, n) ==
  LET fd == WinRateFiltered(d, n)
  IN EloBounds({AverageRating2(fd[i]) : i \in 1..Len(fd)}, 2)

getWinRateByOpeningAcrossEloRanges(d, n) ==
  LET top == TopOpeningsOfWinRate(d, n)
      fd == WinRateFiltered(d, n)
      starts == BandStarts(WinRateBounds(d, n))
      InRange(elo, g) ==
        AverageRating2(g) >= 2 * elo /\ AverageRating2(g) <= 2 * (elo + 99)
      RangeTally(elo) ==
        LET In(g) == InRange(elo, g) IN TallyWinners(SelectSeq(fd, In))
      Stats(elo, nm) ==
        IF HasKey(RangeTally(elo), nm) THEN Lookup(RangeTally(elo), nm)
        ELSE NoWins(nm)
  IN [k \in 1..Len(starts) |->
        [range |-> RangeKey(starts[k]),
         openings |-> [i \in 1..Len(top) |->
                         GuardedWinnerPcts(Stats(starts[k], top[i]))]]]

\* The word "variation" in either case, and the characters \b sees as
\* word characters
VariationWords == {"variation", "Variation"}
WordChars == {"a", "b", "x", "_"} \cup Digits \cup VariationWords

\* /\bvariation\b/gi matches the word at position i
IsVariationWord(s, i) ==
  /\ s[i] \in VariationWords
  /\ i = 1 \/ s[i - 1] \notin WordChars
  /\ i = Len(s) \/ s[i + 1] \notin WordChars

RECURSIVE DropVariationWords(_, _)
DropVariationWords(s, i) ==
  IF i = 0 THEN <<>>
  ELSE DropVariationWords(s, i - 1)
         \o (IF IsVariationWord(s, i) THEN <<>> ELSE <<s[i]>>)

\* variation.replace(/\bvariation\b/gi, '').trim()
CleanVariation(v) == Trim(DropVariationWords(v, Len(v)))

\* parts[1] ? parts[1].trim() : null, with <<>> for null (an empty string
\* is skipped by `if (variation)` like null)
VariationOf(raw) ==
  LET parts == Split(raw)
  IN IF Len(parts) >= 2 /\ parts[2] # <<>> THEN Trim(parts[2]) ELSE <<>>

AddVariation(entry, raw) ==
  [entry EXCEPT !.count = @ + 1,
                !.variations = IF VariationOf(raw) # <<>>
                                 THEN CountName(@, CleanVariation(VariationOf(raw)))
                                 ELSE @]

RECURSIVE TallyVariations(_)
TallyVariations(d) ==
  IF d = <<>> THEN <<>>
  ELSE LET raw == Last(d).opening_name
           nm == CleanNameVariations(raw)
           acc == Ensure(TallyVariations(Front(d)),
                         [name |-> nm, count |-> 0, variations |-> <<>>])
       IN [i \in 1..Len(acc) |->
             IF acc[i].name = nm THEN AddVariation(acc[i], raw) ELSE acc[i]]

\* The declaration takes data only: an n passed by a caller is ignored
getNOpeningVariations(d) ==
  SortDesc(TallyVariations(d), ByCount(TallyVariations(d)))

\* a / b as an exact fraction
Quotient(a, b) == [num |-> a, den |-> b]

AddStats(stats, g) ==
  [AddWinner(stats, g) EXCEPT !.totalTurns = @ + g.turns,
                              !.totalPly = @ + g.opening_ply]

RECURSIVE TallyStats(_)
TallyStats(d) ==
  IF d = <<>> THEN <<>>
  ELSE LET g == Last(d)
           nm == CleanName(g.opening_name)
           acc == Ensure(TallyStats(Front(d)),
                         [name |-> nm, total |-> 0, totalTurns |-> 0,
                          totalPly |-> 0, whiteWins |-> 0, blackWins |-> 0,
                          draws |-> 0])
       IN [i \in 1..Len(acc) |->
             IF acc[i].name = nm THEN AddStats(acc[i], g) ELSE acc[i]]

OpeningStatsEntry(stats) ==
  [name |-> stats.name,
   averageTurns |-> IF stats.total # 0 THEN Quotient(stats.totalTurns, stats.total)
                    ELSE Zero,
   averagePly |-> IF stats.total # 0 THEN Quotient(stats.totalPly, stats.total)
                  ELSE Zero,
   whiteWinPct |-> GuardedPct(stats.whiteWins, stats.total),
   blackWinPct |-> GuardedPct(stats.blackWins, stats.total),
   drawPct |-> GuardedPct(stats.draws, stats.total)]

\* The mapped entries have no `total`: b.total - a.total is NaN, which sort
\* takes as "equal", so every entry has the same key
ByMissingTotal(es) == [i \in 1..Len(es) |-> 0]

getOpeningStats(d) ==
  LET tally == TallyStats(d)
      entries == [i \in 1..Len(tally) |-> OpeningStatsEntry(tally[i])]
  IN SortDesc(entries, ByMissingTotal(entries))

ToLowerCase(t) ==
  CASE t = "TRUE" -> "true" [] t = "FALSE" -> "false" [] OTHER -> t

\* typeof d.rated === 'string' ? d.rated.toLowerCase() === 'true' : !!d.rated
RatedValue(g) ==
  IF g.rated.type = "string" THEN ToLowerCase(g.rated.text) = "true"
  ELSE g.rated.type = "boolean" /\ g.rated.text = "true"

\* d.time_control || d.estimated_time_control
EffectiveTimeControl(g) ==
  IF g.time_control # Absent THEN g.time_control ELSE g.estimated_time_control

\* Math.floor(rating / 100) * 100
Band(rating) == (rating \div 100) * 100

\* The records getOpeningUsageByElo keeps, each with its derived fields
UsageFiltered(d, filterType, timeControl) ==
  LET Kept(g) ==
        /\ ~(filterType = "rated" /\ ~RatedValue(g))
        /\ ~(filterType = "casual" /\ RatedValue(g))
        /\ ~(timeControl # "null" /\ EffectiveTimeControl(g) # timeControl)
      kept == SelectSeq(d, Kept)
  IN [i \in 1..Len(kept) |->
        [ratedType |-> IF RatedValue(kept[i]) THEN "rated" ELSE "casual",
         effectiveTimeControl |-> EffectiveTimeControl(kept[i]),
         cleanedOpening |-> CleanName(kept[i].opening_name)] @@ kept[i]]

\* openingCounts of the kept records
RECURSIVE CountCleaned(_)
CountCleaned(fd) ==
  IF fd = <<>> THEN <<>>
  ELSE CountName(CountCleaned(Front(fd)), Last(fd).cleanedOpening)

UsageTopOpenings(fd, sortBy) ==
  IF sortBy = "name" THEN SortNames(Names(CountCleaned(fd)))
  ELSE Names(SortDesc(CountCleaned(fd), ByCount(CountCleaned(fd))))

\* elos: the band starts of both players of every kept record
UsageElos(fd) ==
  {Band(fd[i].white_rating) : i \in 1..Len(fd)}
    \cup {Band(fd[i].black_rating) : i \in 1..Len(fd)}

\* eloRanges: the bands from minElo up to, not including, maxElo
UsageEloRanges(fd) ==
  LET starts == BandStarts(EloBounds(UsageElos(fd), 1))
  IN [k \in 1..Len(starts) |-> RangeKey(starts[k])]

\* grouped[opening][range], or zeros when the cell was never created
UsageCell(fd, colorFilter, opening, range) ==
  LET whites == IF colorFilter \in {"white", "both"}
                  THEN Cardinality({i \in 1..Len(fd) :
                         /\ fd[i].cleanedOpening = opening
                         /\ Band(fd[i].white_rating) = range.lo})
                  ELSE 0
      blacks == IF colorFilter \in {"black", "both"}
                  THEN Cardinality({i \in 1..Len(fd) :
                         /\ fd[i].cleanedOpening = opening
                         /\ Band(fd[i].black_rating) = range.lo})
                  ELSE 0
  IN [count |-> whites + blacks, whiteCount |-> whites, blackCount |-> blacks]

\* Variant of SumCounts: the players of the returned openings in every band
SumCountsOfAllBands(fd, colorFilter, openings, range) ==
  Cardinality({i \in 1..Len(fd) :
                 \E k \in 1..Len(openings) : fd[i].cleanedOpening = openings[k]})
    * (IF colorFilter = "both" THEN 2 ELSE 1)

RECURSIVE SumCounts(_, _, _, _)
SumCounts(fd, colorFilter, openings, range) ==
  IF openings = <<>> THEN 0
  ELSE SumCounts(fd, colorFilter, Front(openings), range)
         + UsageCell(fd, colorFilter, Last(openings), range).count

EmptyUsage == [data |-> <<>>, openings |-> <<>>, eloRanges |-> <<>>]

getOpeningUsageByElo(d, filterType, timeControl, colorFilter, sortBy) ==
  LET fd == UsageFiltered(d, filterType, timeControl)
      top == UsageTopOpenings(fd, sortBy)
      ranges == UsageEloRanges(fd)
      Cell(range, opening) ==
        LET stats == UsageCell(fd, colorFilter, opening, range)
            totalCount == SumCounts(fd, colorFilter, top, range)
        IN [eloRange |-> range, opening |-> opening, count |-> stats.count,
            whiteCount |-> stats.whiteCount, blackCount |-> stats.blackCount,
            relativeCount |-> IF totalCount > 0
                                THEN Ratio100(stats.count, totalCount)
                                ELSE Zero]
  IN IF Len(fd) = 0 \/ Len(top) = 0 \/ UsageElos(fd) = {}
       THEN EmptyUsage
       ELSE [data |-> [k \in 1..(Len(ranges) * Len(top)) |->
                         Cell(ranges[((k - 1) \div Len(top)) + 1],
                              top[((k - 1) % Len(top)) + 1])],
             openings |-> top,
             eloRanges |-> ranges]

\* Variant of getEloRange: the ratings of the black players are left out
getEloRangeWhiteOnly(d) ==
  EloBounds({d[i].white_rating : i \in 1..Len(d)}, 1)

getEloRange(d) ==
  EloBounds({d[i].white_rating : i \in 1..Len(d)}
              \cup {d[i].black_rating : i \in 1..Len(d)}, 1)

(***************************************************************************)
(* SpecNorm: a raw opening name goes through the canonicalizations         *)
(***************************************************************************)
RawNames == UNION {[1..k -> Alphabet] : k \in 0..MaxLen}

NoCall == [kind |-> "none"]

InitNorm ==
  /\ name \in RawNames
  /\ passes = 0
  /\ data = <<>>
  /\ op = "none"
  /\ arg = NoCall
  /\ result = <<>>
  /\ bounds = [min |-> Finite(0), max |-> Finite(0)]
  /\ PageIdle

NormalizeAll ==
  /\ passes < 2
  /\ name' = CleanNameAll(name)
  /\ passes' = passes + 1
  /\ op' = "getAllOpeningNames"
  /\ UNCHANGED <<data, arg, result, bounds, pageVars>>

NormalizeTopN ==
  /\ passes < 2
  /\ name' = CleanName(name)
  /\ passes' = passes + 1
  /\ op' = "getTopNOpenings"
  /\ UNCHANGED <<data, arg, result, bounds, pageVars>>

NormalizeVariations ==
  /\ passes < 2
  /\ name' = CleanNameVariations(name)
  /\ passes' = passes + 1
  /\ op' = "getNOpeningVariations"
  /\ UNCHANGED <<data, arg, result, bounds, pageVars>>

NextNorm == NormalizeAll \/ NormalizeTopN \/ NormalizeVariations

SpecNorm == InitNorm /\ [][NextNorm]_vars

(***************************************************************************)
(* SpecAgg: a caller holding a dataset calls the aggregation functions,    *)
(* one call at a time, and drops each result before the next call          *)
(***************************************************************************)
TopNArgs == {Number(k) : k \in 0..MaxN} \cup {Null, Undefined}

NoBounds == [min |-> Finite(0), max |-> Finite(0)]

InitAgg ==
  /\ data \in DataSets
  /\ op = "none"
  /\ arg = NoCall
  /\ result = <<>>
  /\ bounds = NoBounds
  /\ name = <<>>
  /\ passes = 0
  /\ PageIdle

CallGetAllOpeningNames ==
  /\ op = "none"
  /\ op' = "getAllOpeningNames"
  /\ arg' = NoCall
  /\ result' = getAllOpeningNames(data)
  /\ bounds' = NoBounds
  /\ UNCHANGED <<data, name, passes, pageVars>>

CallGetTopNOpenings ==
  \E n \in TopNArgs :
    /\ op = "none"
    /\ op' = "getTopNOpenings"
    /\ arg' = n
    /\ result' = getTopNOpenings(data, n)
    /\ bounds' = NoBounds
    /\ UNCHANGED <<data, name, passes, pageVars>>

CallGetTopNOpeningsWinners ==
  \E n \in {Number(1), Number(MaxN)} :
    /\ op = "none"
    /\ op' = "getTopNOpeningsWinners"
    /\ arg' = n
    /\ result' = getTopNOpeningsWinners(data, n)
    /\ bounds' = NoBounds
    /\ UNCHANGED <<data, name, passes, pageVars>>

CallGetTopNOpeningsWithResults ==
  \E n \in {Number(1), Number(MaxN)} :
    /\ op = "none"
    /\ op' = "getTopNOpeningsWithResults"
    /\ arg' = n
    /\ result' = getTopNOpeningsWithResults(data, n)
    /\ bounds' = NoBounds
    /\ UNCHANGED <<data, name, passes, pageVars>>

CallGetWinRate ==
  \E n \in {Number(k) : k \in 1..MaxN} :
    /\ op = "none"
    /\ op' = "getWinRateByOpeningAcrossEloRanges"
    /\ arg' = n
    /\ result' = getWinRateByOpeningAcrossEloRanges(data, n)
    /\ bounds' = WinRateBounds(data, n)
    /\ UNCHANGED <<data, name, passes, pageVars>>

\* The callers pass n (this.options.numOpenings), which the function drops
CallGetNOpeningVariations ==
  \E n \in {Number(1), Number(MaxN)} :
    /\ op = "none"
    /\ op' = "getNOpeningVariations"
    /\ arg' = n
    /\ result' = getNOpeningVariations(data)
    /\ bounds' = NoBounds
    /\ UNCHANGED <<data, name, passes, pageVars>>

CallGetOpeningStats ==
  /\ op = "none"
  /\ op' = "getOpeningStats"
  /\ arg' = NoCall
  /\ result' = getOpeningStats(data)
  /\ bounds' = NoBounds
  /\ UNCHANGED <<data, name, passes, pageVars>>

CallGetOpeningUsageByElo ==
  \E filterType \in {"null", "rated"}, timeControl \in {"null", "Blitz"},
     colorFilter \in {"white", "black", "both"},
     sortBy \in {"popularity", "name"} :
    /\ op = "none"
    /\ op' = "getOpeningUsageByElo"
    /\ arg' = [kind |-> "usage", filterType |-> filterType,
               timeControl |-> timeControl, colorFilter |-> colorFilter,
               sortBy |-> sortBy]
    /\ result' = getOpeningUsageByElo(data, filterType, timeControl,
                                      colorFilter, sortBy)
    /\ bounds' = NoBounds
    /\ UNCHANGED <<data, name, passes, pageVars>>

CallGetEloRange ==
  /\ op = "none"
  /\ op' = "getEloRange"
  /\ arg' = NoCall
  /\ result' = getEloRange(data)
  /\ bounds' = getEloRange(data)
  /\ UNCHANGED <<data, name, passes, pageVars>>

\* The caller is done with the result
Discard ==
  /\ op # "none"
  /\ op' = "none"
  /\ arg' = NoCall
  /\ result' = <<>>
  /\ bounds' = NoBounds
  /\ UNCHANGED <<data, name, passes, pageVars>>

(***************************************************************************)
(* The circle-packing view (viz5-scatter-plot/viz.js): what its tooltips   *)
(* report for each opening family.  The sizes of the circles are held in   *)
(* tenths, so that count * 0.8 is the integer 8 * count.                   *)
(***************************************************************************)
VariationInflationFactor == 2

\* the name of the leaf of a family that has no variation
Principal == <<"Principal">>

\* children of a family: a leaf for each variation, its count inflated, or
\* one "Principal" leaf of 0.8 * details.count
CircleChildren(details) ==
  IF details.variations = <<>>
    THEN <<[name |-> Principal, tenths |-> 8 * details.count]>>
    ELSE [i \in 1..Len(details.variations) |->
            [name |-> IF details.variations[i].name = <<>> THEN Principal
                      ELSE details.variations[i].name,
             tenths |-> 10 * details.variations[i].count
                           * VariationInflationFactor]]

RECURSIVE SumTenths(_)
SumTenths(children) ==
  IF children = <<>> THEN 0
  ELSE SumTenths(Front(children)) + Last(children).tenths

\* Math.round(tenths / 10 / variationInflationFactor), for tenths >= 0
RoundedGames(tenths) ==
  (2 * tenths + 10 * VariationInflationFactor)
    \div (2 * 10 * VariationInflationFactor)

\* the hover tooltip of a leaf d: d.value / d.parent.value * 100 and the two
\* rounded numbers of games
HoverReport(leaf, parentTenths) ==
  [name |-> leaf.name,
   percentage |-> Ratio100(leaf.tenths, parentTenths),
   games |-> RoundedGames(leaf.tenths),
   outOf |-> RoundedGames(parentTenths)]

\* the title tooltip of a family and the hover tooltips of its leaves, which
\* d3.hierarchy(...).sort lists by descending value
FamilyReport(entry) ==
  LET children == CircleChildren(entry)
      leaves == SortDesc(children,
                         [i \in 1..Len(children) |-> children[i].tenths])
  IN [name |-> entry.name,
      totalGames |-> RoundedGames(SumTenths(children)),
      leaves |-> [i \in 1..Len(leaves) |->
                    HoverReport(leaves[i], SumTenths(children))]]

\* draw(data): the families of getNOpeningVariations, cut to numOpenings
CirclePackingReport(d, n) ==
  LET families == Slice0(getNOpeningVariations(d), n)
  IN [i \in 1..Len(families) |-> FamilyReport(families[i])]

CallDrawCirclePacking ==
  \E n \in {Number(1), Number(MaxN)} :
    /\ op = "none"
    /\ op' = "CirclePackingVisualization.draw"
    /\ arg' = n
    /\ result' = CirclePackingReport(data, n)
    /\ bounds' = NoBounds
    /\ UNCHANGED <<data, name, passes, pageVars>>

NextAgg ==
  \/ CallGetAllOpeningNames
  \/ CallGetTopNOpenings
  \/ CallGetTopNOpeningsWinners
  \/ CallGetTopNOpeningsWithResults
  \/ CallGetWinRate
  \/ CallGetNOpeningVariations
  \/ CallGetOpeningStats
  \/ CallGetOpeningUsageByElo
  \/ CallGetEloRange
  \/ CallDrawCirclePacking
  \/ Discard

SpecAgg == InitAgg /\ [][NextAgg]_vars

(***************************************************************************)
(* Properties of the aggregation results                                   *)
(***************************************************************************)
AddFraction(a, b) == [num |-> a.num * b.den + b.num * a.den, den |-> a.den * b.den]
IsHundred(f) == f.den # 0 /\ f.num = 100 * f.den
IsExactlyZero(f) == f.den # 0 /\ f.num = 0

\* The opening families of a dataset, as the aggregations name them
Families(d) == {CleanName(d[i].opening_name) : i \in 1..Len(d)}
FirstSeen(d, nm) ==
  CHOOSE i \in 1..Len(d) :
    /\ CleanName(d[i].opening_name) = nm
    /\ \A j \in 1..(i - 1) : CleanName(d[j].opening_name) # nm
GamesOf(d, nm) ==
  Cardinality({i \in 1..Len(d) : CleanName(d[i].opening_name) = nm})

WinnerPctsSum(b) ==
  AddFraction(AddFraction(b.whiteWinPct, b.blackWinPct), b.drawPct)
StatusPctsSum(b) ==
  AddFraction(AddFraction(b.matePct, b.resignPct),
              AddFraction(b.outoftimePct, b.drawPct))

\* C2: in the results of getTopNOpeningsWinners, getTopNOpeningsWithResults
\* and getWinRateByOpeningAcrossEloRanges, the outcome percentages of every
\* bucket with total > 0 sum to 100.
C2_PercentagesSumTo100 ==
  /\ op = "getTopNOpeningsWinners" =>
       \A i \in 1..Len(result) :
         result[i].total > 0 => IsHundred(WinnerPctsSum(result[i]))
  /\ op = "getTopNOpeningsWithResults" =>
       \A i \in 1..Len(result) :
         result[i].total > 0 => IsHundred(StatusPctsSum(result[i]))
  /\ op = "getWinRateByOpeningAcrossEloRanges" =>
       \A k \in 1..Len(result) : \A i \in 1..Len(result[k].openings) :
         result[k].openings[i].total > 0 =>
           IsHundred(WinnerPctsSum(result[k].openings[i]))

\* A bucket of an Elo band that mixes a white win and a draw
C2_Witness ==
  /\ op = "getWinRateByOpeningAcrossEloRanges"
  /\ \E k \in 1..Len(result) : \E i \in 1..Len(result[k].openings) :
       /\ result[k].openings[i].total = 2
       /\ result[k].openings[i].whiteWinPct.num > 0
       /\ result[k].openings[i].drawPct.num > 0

\* The total count of the column of a heatmap cell
ColumnTotal(cells, range) ==
  LET RECURSIVE Sum(_)
      Sum(k) == IF k = 0 THEN 0
                ELSE Sum(k - 1)
                       + (IF cells[k].eloRange = range THEN cells[k].count ELSE 0)
  IN Sum(Len(cells))

\* C3: a bucket whose total is 0 has every percentage exactly 0 (never NaN
\* or Infinity): an opening without a game in an Elo band of
\* getWinRateByOpeningAcrossEloRanges, a cell of an empty Elo column of
\* getOpeningUsageByElo, and any bucket of the two top-N outcome lists.
C3_ZeroTotalZeroPct ==
  /\ op = "getWinRateByOpeningAcrossEloRanges" =>
       \A k \in 1..Len(result) : \A i \in 1..Len(result[k].openings) :
         LET b == result[k].openings[i]
         IN b.total = 0 => /\ IsExactlyZero(b.whiteWinPct)
                           /\ IsExactlyZero(b.blackWinPct)
                           /\ IsExactlyZero(b.drawPct)
  /\ op = "getOpeningUsageByElo" =>
       \A k \in 1..Len(result.data) :
         ColumnTotal(result.data, result.data[k].eloRange) = 0 =>
           IsExactlyZero(result.data[k].relativeCount)
  /\ op = "getTopNOpeningsWinners" =>
       \A i \in 1..Len(result) :
         result[i].total = 0 => /\ IsExactlyZero(result[i].whiteWinPct)
                                /\ IsExactlyZero(result[i].blackWinPct)
                                /\ IsExactlyZero(result[i].drawPct)
  /\ op = "getTopNOpeningsWithResults" =>
       \A i \in 1..Len(result) :
         result[i].total = 0 => /\ IsExactlyZero(result[i].matePct)
                                /\ IsExactlyZero(result[i].resignPct)
                                /\ IsExactlyZero(result[i].outoftimePct)
                                /\ IsExactlyZero(result[i].drawPct)

\* Two Elo bands, and an opening that has games in one and none in the other
C3_Witness ==
  /\ op = "getWinRateByOpeningAcrossEloRanges"
  /\ \E k, m \in 1..Len(result) : \E i \in 1..Len(result[k].openings) :
       /\ result[k].openings[i].total = 0
       /\ result[m].openings[i].total > 0

C5_NullOrOmittedMeansAll ==
  (op = "getTopNOpenings" /\ arg.kind \in {"null", "undefined"}) =>
    {result[i].name : i \in 1..Len(result)} = Families(data)

\* C6: for a dataset with at least n opening families, every range returned
\* by getWinRateByOpeningAcrossEloRanges(data, n) has exactly n openings,
\* the same openings in every range.
C6_DenseGridOfRequestedSize ==
  (op = "getWinRateByOpeningAcrossEloRanges"
     /\ Cardinality(Families(data)) >= arg.v) =>
    \A k \in 1..Len(result) :
      /\ Len(result[k].openings) = arg.v
      /\ Names(result[k].openings) = Names(result[1].openings)

\* The bands from lo up to, not including, hi: contiguous, ascending
IsBandCover(ranges, lo, hi) ==
  /\ Len(ranges) * 100 = hi - lo
  /\ \A k \in 1..Len(ranges) :
       ranges[k] = [lo |-> lo + 100 * (k - 1), hi |-> lo + 100 * (k - 1) + 99]

SmallestOf(xs) == CHOOSE x \in xs : \A y \in xs : x <= y
LargestOf(xs) == CHOOSE x \in xs : \A y \in xs : x >= y

\* The ratings getOpeningUsageByElo bins under the arguments of the call
BinnedRatings(d, a) ==
  LET fd == UsageFiltered(d, a.filterType, a.timeControl)
  IN {fd[i].white_rating : i \in 1..Len(fd)}
       \cup {fd[i].black_rating : i \in 1..Len(fd)}

\* C7: the range keys of getWinRateByOpeningAcrossEloRanges and the
\* eloRanges of getOpeningUsageByElo are the contiguous 100-point bands, in
\* ascending order, that cover [floor(min/100)*100, ceil(max/100)*100) of the
\* rating values the function bins (average ratings, resp. the ratings of
\* both players of the records that pass the filters).
C7_BandsCoverBinnedRatings ==
  /\ (op = "getWinRateByOpeningAcrossEloRanges" /\ data # <<>>) =>
       LET avgs == {AverageRating2(data[i]) : i \in 1..Len(data)}
       IN IsBandCover([k \in 1..Len(result) |-> result[k].range],
                      (SmallestOf(avgs) \div 200) * 100,
                      (0 - ((0 - LargestOf(avgs)) \div 200)) * 100)
  /\ (op = "getOpeningUsageByElo" /\ BinnedRatings(data, arg) # {}) =>
       IsBandCover(result.eloRanges,
                   (SmallestOf(BinnedRatings(data, arg)) \div 100) * 100,
                   (0 - ((0 - LargestOf(BinnedRatings(data, arg))) \div 100)) * 100)

\* C8: on a non-empty dataset getEloRange returns the largest multiple of
\* 100 that is <= every rating as min and the smallest multiple of 100 that
\* is >= every rating as max (floor(m/100)*100 and ceil(M/100)*100).
C8_EloRangeFloorCeil ==
  (op = "getEloRange" /\ data # <<>>) =>
    LET ratings == {data[i].white_rating : i \in 1..Len(data)}
                     \cup {data[i].black_rating : i \in 1..Len(data)}
    IN /\ result.min.inf = 0 /\ result.max.inf = 0
       /\ result.min.v % 100 = 0 /\ result.max.v % 100 = 0
       /\ \A r \in ratings : result.min.v <= r /\ r <= result.max.v
       /\ \E r \in ratings : r < result.min.v + 100
       /\ \E r \in ratings : r > result.max.v - 100

\* Ratings 1050 and 1180 give {min: 1000, max: 1200}
C8_Witness ==
  /\ op = "getEloRange"
  /\ Len(data) = 1
  /\ data[1].white_rating = 1050 /\ data[1].black_rating = 1180
  /\ result = [min |-> Finite(1000), max |-> Finite(1200)]

\* C9: neither getEloRange nor the range computation of
\* getWinRateByOpeningAcrossEloRanges produces Infinity or -Infinity as a
\* bound, whatever the record set (the empty one included).
C9_NoInfiniteBound ==
  op \in {"getEloRange", "getWinRateByOpeningAcrossEloRanges"} =>
    bounds.min.inf = 0 /\ bounds.max.inf = 0

\* C10: called on an empty record array, each of the eight aggregation
\* functions returns an empty structure.
C10_EmptyInEmptyOut ==
  (data = <<>> /\ op \notin {"none", "getEloRange"}) =>
    IF op = "getOpeningUsageByElo"
      THEN result = [data |-> <<>>, openings |-> <<>>, eloRanges |-> <<>>]
      ELSE result = <<>>

\* The Elo win-rate grid was computed over the empty dataset
C10_Witness ==
  /\ data = <<>>
  /\ op = "getWinRateByOpeningAcrossEloRanges"
  /\ result = <<>>

\* C1: canonicalization is idempotent: a name that went through the
\* canonicalization of an aggregation function is left unchanged when the
\* same function canonicalizes it again.
C1_CanonicalizationIdempotent ==
  passes >= 1 =>
    /\ op = "getTopNOpenings" => CleanName(name) = name
    /\ op = "getAllOpeningNames" => CleanNameAll(name) = name
    /\ op = "getNOpeningVariations" => CleanNameVariations(name) = name

(***************************************************************************)
(* SpecMal: the aggregation functions over datasets in which a record may  *)
(* lack the opening_name field                                             *)
(***************************************************************************)
MaxMal == 2          \* records of a dataset that may hold a malformed one

\* d.opening_name of a record that has no such field
UndefinedName == <<"undefined">>

MalGames ==
  {[BaseGame EXCEPT !.opening_name = nm,
                    !.white_rating = r[1], !.black_rating = r[2]] :
     nm \in {<<"a">>, <<"b">>, UndefinedName},
     r \in {<<1020, 1060>>, <<1100, 1300>>}}

\* d.opening_name.split(...) on a record without opening_name raises a
\* TypeError, which no aggregation function catches
SplitThrows(d) == \E i \in 1..Len(d) : d[i].opening_name = UndefinedName

WithoutMalformed(d) ==
  SelectSeq(d, LAMBDA g : g.opening_name # UndefinedName)

InitMal ==
  /\ data \in SeqsUpTo(MalGames, MaxMal)
  /\ op = "none"
  /\ arg = NoCall
  /\ result = <<>>
  /\ bounds = NoBounds
  /\ name = <<>>
  /\ passes = 0
  /\ PageIdle

MalGetTopNOpenings ==
  /\ op = "none"
  /\ op' = "getTopNOpenings"
  /\ arg' = Undefined
  /\ thrown' = IF SplitThrows(data) THEN "TypeError" ELSE "none"
  /\ result' = IF SplitThrows(data) THEN <<>>
               ELSE getTopNOpenings(data, Undefined)
  /\ bounds' = NoBounds
  /\ UNCHANGED <<data, name, passes, uiVars>>

MalGetWinRate ==
  /\ op = "none"
  /\ op' = "getWinRateByOpeningAcrossEloRanges"
  /\ arg' = Number(MaxN)
  /\ thrown' = IF SplitThrows(data) THEN "TypeError" ELSE "none"
  /\ result' = IF SplitThrows(data) THEN <<>>
               ELSE getWinRateByOpeningAcrossEloRanges(data, Number(MaxN))
  /\ bounds' = IF SplitThrows(data) THEN NoBounds
               ELSE WinRateBounds(data, Number(MaxN))
  /\ UNCHANGED <<data, name, passes, uiVars>>

\* getEloRange never reads opening_name
MalGetEloRange ==
  /\ op = "none"
  /\ op' = "getEloRange"
  /\ arg' = NoCall
  /\ thrown' = "none"
  /\ result' = getEloRange(data)
  /\ bounds' = getEloRange(data)
  /\ UNCHANGED <<data, name, passes, uiVars>>

\* The caller is done with the result or with the exception
MalDiscard ==
  /\ op # "none"
  /\ op' = "none"
  /\ arg' = NoCall
  /\ thrown' = "none"
  /\ result' = <<>>
  /\ bounds' = NoBounds
  /\ UNCHANGED <<data, name, passes, uiVars>>

NextMal ==
  \/ MalGetTopNOpenings
  \/ MalGetWinRate
  \/ MalGetEloRange
  \/ MalDiscard

SpecMal == InitMal /\ [][NextMal]_vars

\* C11: a record without opening_name is excluded from the aggregation
\* without aborting it: the call returns, and returns what it returns for
\* the dataset with the malformed records removed.
C11_MalformedRecordExcluded ==
  /\ op \in {"getTopNOpenings", "getWinRateByOpeningAcrossEloRanges",
             "getEloRange"}
       => thrown = "none"
  /\ op = "getTopNOpenings"
       => result = getTopNOpenings(WithoutMalformed(data), Undefined)
  /\ op = "getWinRateByOpeningAcrossEloRanges"
       => result = getWinRateByOpeningAcrossEloRanges(
                     WithoutMalformed(data), Number(MaxN))
  /\ op = "getEloRange" => result = getEloRange(WithoutMalformed(data))

(***************************************************************************)
(* Time-control estimation: estimateTimePerGame of src/index.js (from the  *)
(* increment code) and getTimeControlOptions of preprocess.js (from the    *)
(* duration of the game)                                                   *)
(***************************************************************************)
MaxTime == 2         \* records of a dataset that varies the clock fields

\* The result of parseInt and of the arithmetic on it: an integer or NaN
IntValue(v) == [nan |-> FALSE, v |-> v]
NotANumber == [nan |-> TRUE, v |-> 0]

Plus(x, y) == IF x.nan \/ y.nan THEN NotANumber ELSE IntValue(x.v + y.v)
Times(x, y) == IF x.nan \/ y.nan THEN NotANumber ELSE IntValue(x.v * y.v)

\* x < limit; every comparison with NaN is false
LessThan(x, limit) == ~x.nan /\ x.v < limit

\* s.includes(c)
Includes(s, c) == \E i \in 1..Len(s) : s[i] = c

\* s.split('+')
RECURSIVE SplitPlus(_)
SplitPlus(s) ==
  IF ~Includes(s, "+")
    THEN <<s>>
    ELSE LET k == CHOOSE i \in 1..Len(s) :
                    /\ s[i] = "+"
                    /\ \A j \in 1..(i - 1) : s[j] # "+"
         IN <<SubSeq(s, 1, k - 1)>> \o SplitPlus(SubSeq(s, k + 1, Len(s)))

DigitValue(c) ==
  CASE c = "0" -> 0 [] c = "1" -> 1 [] c = "2" -> 2 [] c = "3" -> 3
    [] c = "4" -> 4 [] c = "5" -> 5 [] c = "6" -> 6 [] c = "7" -> 7
    [] c = "8" -> 8 [] c = "9" -> 9

RECURSIVE LeadingDigits(_)
LeadingDigits(s) ==
  IF s # <<>> /\ Head(s) \in Digits
    THEN <<Head(s)>> \o LeadingDigits(Tail(s))
    ELSE <<>>

RECURSIVE DigitsValue(_)
DigitsValue(ds) ==
  IF ds = <<>> THEN 0 ELSE 10 * DigitsValue(Front(ds)) + DigitValue(Last(ds))

\* parseInt(s): leading blanks and one sign are skipped, the decimal digits
\* that follow are read, and the result is NaN when there is no digit
\* (no string of the model starts with "0x")
ParseInt(s) ==
  LET t == TrimStart(s)
      signed == t # <<>> /\ Head(t) \in {"+", "-"}
      ds == LeadingDigits(IF signed THEN Tail(t) ELSE t)
  IN IF ds = <<>> THEN NotANumber
     ELSE IF signed /\ Head(t) = "-" THEN IntValue(0 - DigitsValue(ds))
     ELSE IntValue(DigitsValue(ds))

\* An increment_code the record does not have is the empty string here:
\* both are falsy in `!d.increment_code`
NoCode == <<>>

BulletSeconds == 180
BlitzSeconds == 480
RapidSeconds == 1500

\* initial * 60 + increment * d.turns
EstimatedTime(g) ==
  LET parts == SplitPlus(g.increment_code)
  IN Plus(Times(ParseInt(parts[1]), IntValue(60)),
          Times(ParseInt(parts[2]), IntValue(g.turns)))

\* the label estimateTimePerGame writes on the record
IncrementCategory(g) ==
  IF g.increment_code = NoCode \/ ~Includes(g.increment_code, "+")
    THEN "Unknown"
  ELSE IF LessThan(EstimatedTime(g), BulletSeconds) THEN "Bullet"
  ELSE IF LessThan(EstimatedTime(g), BlitzSeconds) THEN "Blitz"
  ELSE IF LessThan(EstimatedTime(g), RapidSeconds) THEN "Rapide"
  ELSE "Classique"

\* data.forEach(d => { d.estimated_time_control = ... }): the array after
\* the call, whose records were written in place
estimateTimePerGame(d) ==
  [i \in 1..Len(d) |->
     [d[i] EXCEPT !.estimated_time_control = IncrementCategory(d[i])]]

BulletPerMove == 3
BlitzPerMove == 10
RapidPerMove == 30
DefaultMoves == 40

\* the divisor Math.max(d.turns, 1), which the code does not use
NumMovesAtLeastOne(g) == IF g.turns = 0 THEN 1 ELSE g.turns
\* d.turns || 40
NumMoves(g) == IF g.turns = 0 THEN DefaultMoves ELSE g.turns

\* averageTimePerMove <= limit, with averageTimePerMove =
\* (endTime - startTime) / 1000 / numMoves and the timestamps in milliseconds
PerMoveAtMost(g, limit) ==
  g.last_move_at - g.created_at <= 1000 * limit * NumMoves(g)

\* timeControlCategory of one record; a timestamp of 0 stands for a missing
\* one (both are falsy in `d.created_at && d.last_move_at`)
DurationCategory(g) ==
  IF g.created_at = 0 \/ g.last_move_at = 0 THEN "Non défini"
  ELSE IF PerMoveAtMost(g, BulletPerMove) THEN "Bullet"
  ELSE IF PerMoveAtMost(g, BlitzPerMove) THEN "Blitz"
  ELSE IF PerMoveAtMost(g, RapidPerMove) THEN "Rapide"
  ELSE "Classique"

\* whether getTimeControlOptions estimates from the durations
EstimatesFromDuration(d) == d = <<>> \/ d[1].time_control = Absent

getTimeControlOptions(d) ==
  IF ~EstimatesFromDuration(d)
    THEN Distinct([i \in 1..Len(d) |-> d[i].time_control])
    ELSE Distinct([i \in 1..Len(d) |-> DurationCategory(d[i])])

(***************************************************************************)
(* SpecTime: the two estimators are called on a dataset that varies the    *)
(* increment code, the timestamps and the number of turns                  *)
(***************************************************************************)
CodePool ==
  { NoCode, <<"5">>, <<"1", "+", "0">>, <<"2", "+", "1">>, <<"5", "+", "3">>,
    <<"1", "0", "+", "0">>, <<"2", "5", "+", "0">>, <<"5", "+">>,
    <<"x", "+", "0">> }

\* created_at and last_move_at, in milliseconds
Stamps ==
  { <<0, 5000>>, <<1000, 3000>>, <<1000, 121000>>, <<1000, 121001>>,
    <<1000, 401000>>, <<1000, 1201000>>, <<1000, 1201001>> }

\* the rows as d3.csv delivers them: no estimated_time_control yet
ClockGames ==
  {[BaseGame EXCEPT !.increment_code = c, !.turns = t,
                    !.estimated_time_control = Absent] :
     c \in CodePool, t \in {40, 60}}

DurationGames ==
  {[BaseGame EXCEPT !.created_at = s[1], !.last_move_at = s[2], !.turns = t,
                    !.estimated_time_control = Absent] :
     s \in Stamps, t \in {0, 1, 40}}

TimedGames ==
  {[BaseGame EXCEPT !.time_control = "Blitz",
                    !.estimated_time_control = Absent]}

TimeDataSets ==
  SeqsUpTo(ClockGames \cup DurationGames \cup TimedGames, MaxTime)

InitTime ==
  /\ data \in TimeDataSets
  /\ op = "none"
  /\ arg = NoCall
  /\ result = <<>>
  /\ bounds = NoBounds
  /\ name = <<>>
  /\ passes = 0
  /\ PageIdle

\* estimateTimePerGame returns nothing and leaves its labels on the records
CallEstimateTimePerGame ==
  /\ op = "none"
  /\ op' = "estimateTimePerGame"
  /\ arg' = NoCall
  /\ data' = estimateTimePerGame(data)
  /\ result' = <<>>
  /\ bounds' = NoBounds
  /\ UNCHANGED <<name, passes, pageVars>>

CallGetTimeControlOptions ==
  /\ op = "none"
  /\ op' = "getTimeControlOptions"
  /\ arg' = NoCall
  /\ result' = getTimeControlOptions(data)
  /\ bounds' = NoBounds
  /\ UNCHANGED <<data, name, passes, pageVars>>

NextTime ==
  \/ CallEstimateTimePerGame
  \/ CallGetTimeControlOptions
  \/ Discard

SpecTime == InitTime /\ [][NextTime]_vars

\* a non-empty string of decimal digits
AllDigits(s) == s # <<>> /\ \A i \in 1..Len(s) : s[i] \in Digits

\* the increment code reads <initial>+<increment>, two decimal integers
MatchesIncrementCode(code) ==
  /\ Len(SplitPlus(code)) = 2
  /\ AllDigits(SplitPlus(code)[1])
  /\ AllDigits(SplitPlus(code)[2])

\* initial * 60 + increment * turns of a record whose code matches
EstimatedSeconds(g) ==
  DigitsValue(SplitPlus(g.increment_code)[1]) * 60
    + DigitsValue(SplitPlus(g.increment_code)[2]) * g.turns

\* C16: the increment-based estimate is initial*60 + increment*turns and the
\* category is Bullet below 180, Blitz below 480, Rapide below 1500 and
\* Classique otherwise; a record whose increment code is absent or does not
\* match the pattern gets Unknown, never Classique.
C16_IncrementEstimate ==
  op = "estimateTimePerGame" =>
    \A i \in 1..Len(data) :
      data[i].estimated_time_control =
        IF ~MatchesIncrementCode(data[i].increment_code) THEN "Unknown"
        ELSE IF EstimatedSeconds(data[i]) < 180 THEN "Bullet"
        ELSE IF EstimatedSeconds(data[i]) < 480 THEN "Blitz"
        ELSE IF EstimatedSeconds(data[i]) < 1500 THEN "Rapide"
        ELSE "Classique"

\* the records that carry both timestamps
Stamped(d) == {i \in 1..Len(d) : d[i].created_at # 0 /\ d[i].last_move_at # 0}

\* the category of a game of `millis` milliseconds divided by `moves` moves:
\* at most 3 seconds per move Bullet, 10 Blitz, 30 Rapide, else Classique
PerMoveCategory(millis, moves) ==
  IF millis <= 3000 * moves THEN "Bullet"
  ELSE IF millis <= 10000 * moves THEN "Blitz"
  ELSE IF millis <= 30000 * moves THEN "Rapide"
  ELSE "Classique"

Categories == {"Bullet", "Blitz", "Rapide", "Classique"}

Labels(xs) == {xs[i] : i \in 1..Len(xs)}

MaxPage == 2         \* rows of games.csv
MaxEdits == 1        \* changes the user makes to the filter controls
MaxItems == 6        \* longest list a paginated chart of SpecPaging pages through
MaxPerPage == 3      \* largest page size given as an option in SpecPaging
MaxClicks == 6       \* clicks on the chart-type toggle in SpecToggle

LowerChar(c) ==
  CASE c = "A" -> "a" [] c = "B" -> "b" [] c = "X" -> "x" [] OTHER -> c

\* String.prototype.toLowerCase on a string held as characters
LowerCaseString(s) == [i \in 1..Len(s) |-> LowerChar(s[i])]

\* s.includes(t) for strings
IncludesString(s, t) ==
  \E k \in 0..(Len(s) - Len(t)) : SubSeq(s, k + 1, k + Len(t)) = t

\* xs.includes(x) for arrays
InArray(xs, x) == \E i \in 1..Len(xs) : xs[i] = x

\* state.filters as constructed; elo is the empty array until updateFilters
\* replaces it with {min, max}
InitialFilters ==
  [opening |-> <<>>, elo |-> <<>>, color |-> <<>>, gameType |-> <<>>,
   timeControl |-> <<>>, search |-> <<>>]

\* The controls of the page before initializeFilters fills them.  The value
\* of a <select> is <<v>> when the option v is selected and <<>> when no
\* option is.
EmptyControls ==
  [openings |-> <<>>, openingChecked |-> {}, selectAll |-> TRUE,
   eloMin |-> <<>>, eloMax |-> <<>>, color |-> {}, gameType |-> {},
   timeOptions |-> <<>>, timeChecked |-> {}, search |-> <<>>]

\* populateEloSelect(select, min, max): the options min, min + 100, ... up to
\* max; none when a bound is infinite
EloOptions(lo, hi) ==
  IF lo.inf # 0 \/ hi.inf # 0 THEN {}
  ELSE {x \in lo.v..hi.v : (x - lo.v) % 100 = 0}

EloMinOptions(b) ==
  EloOptions(b.min, IF b.max.inf = 0 THEN Finite(b.max.v - 100) ELSE b.max)

EloMaxOptions(b) ==
  EloOptions(IF b.min.inf = 0 THEN Finite(b.min.v + 100) ELSE b.min, b.max)

\* select.value = v: selects the option v, or nothing when there is none
SelectValue(options, v) == IF v \in options THEN <<v>> ELSE <<>>

\* +select.value: the number selected, 0 for the empty string
UnaryPlus(value) == IF value = <<>> THEN 0 ELSE value[1]

\* the value of the "select all" checkbox, which updateFilters skips
AllValue == <<"a", "l", "l">>

\* the controls after initializeFilters(data): every checkbox checked, the
\* selects on the bounds of getEloRange
initializeFilters(d) ==
  LET openings == getAllOpeningNames(d)
      range == getEloRange(d)
      times == getTimeControlOptions(d)
  IN [openings |-> openings,
      openingChecked |-> {openings[i] : i \in 1..Len(openings)},
      selectAll |-> TRUE,
      eloMin |-> IF range.min.inf = 0
                   THEN SelectValue(EloMinOptions(range), range.min.v)
                   ELSE <<>>,
      eloMax |-> IF range.max.inf = 0
                   THEN SelectValue(EloMaxOptions(range), range.max.v)
                   ELSE <<>>,
      color |-> {"white", "black"},
      gameType |-> {"rated", "casual"},
      timeOptions |-> times,
      timeChecked |-> {times[i] : i \in 1..Len(times)},
      search |-> <<>>]

\* the values of the checked boxes of a menu, in document order
CheckedValues(options, checked) ==
  SelectSeq(options, LAMBDA o : o \in checked)

\* state.filters after updateFilters(); search is left as it is
updateFilters(c, f) ==
  [opening |-> SelectSeq(CheckedValues(c.openings, c.openingChecked),
                         LAMBDA o : o # AllValue),
   elo |-> [min |-> UnaryPlus(c.eloMin), max |-> UnaryPlus(c.eloMax)],
   color |-> CheckedValues(<<"white", "black">>, c.color),
   gameType |-> CheckedValues(<<"rated", "casual">>, c.gameType),
   timeControl |-> CheckedValues(c.timeOptions, c.timeChecked),
   search |-> f.search]

PassesOpening(g, f) ==
  InArray(f.opening, CleanNameVariations(g.opening_name))

\* the two Elo tests, one for each colour of state.filters.color
PassesElo(g, f) ==
  /\ ~(/\ InArray(f.color, "white")
       /\ (g.white_rating < f.elo.min \/ g.white_rating > f.elo.max))
  /\ ~(/\ InArray(f.color, "black")
       /\ (g.black_rating < f.elo.min \/ g.black_rating > f.elo.max))

\* d.rated.toLowerCase() === 'true' ? 'rated' : 'casual', for a string
GameTypeOf(g) ==
  IF ToLowerCase(g.rated.text) = "true" THEN "rated" ELSE "casual"

\* d.rated.toLowerCase() raises a TypeError when d.rated is not a string:
\* it is evaluated for the records that passed the opening and Elo tests
RatedThrows(g, f) ==
  PassesOpening(g, f) /\ PassesElo(g, f) /\ g.rated.type # "string"

PassesGameType(g, f) ==
  g.rated.type = "string" /\ InArray(f.gameType, GameTypeOf(g))

PassesTimeControl(g, f) == InArray(f.timeControl, g.estimated_time_control)

PassesSearch(g, f) ==
  f.search = <<>>
    \/ IncludesString(LowerCaseString(g.opening_name),
                      LowerCaseString(f.search))

\* the callback of data.filter
Keeps(g, f) ==
  /\ PassesOpening(g, f)
  /\ PassesElo(g, f)
  /\ PassesGameType(g, f)
  /\ PassesTimeControl(g, f)
  /\ PassesSearch(g, f)

\* whether applyFilters(d) raises instead of returning
FilterThrows(d, f) == \E i \in 1..Len(d) : RatedThrows(d[i], f)

\* Variant of applyFilters: the kept records carry the canonical name
applyFiltersRenamed(d, f) ==
  LET kept == SelectSeq(d, LAMBDA g : Keeps(g, f))
  IN [i \in 1..Len(kept) |->
        [kept[i] EXCEPT !.opening_name = CleanNameVariations(@)]]

\* applyFilters(data) under state.filters = f, when it returns
applyFilters(d, f) == SelectSeq(d, LAMBDA g : Keeps(g, f))

\* filteredData of drawVisualizations; nothing is drawn when applyFilters
\* raises
Drawn(d, f) == IF FilterThrows(d, f) THEN <<>> ELSE applyFilters(d, f)

Raised(d, f) == IF FilterThrows(d, f) THEN "TypeError" ELSE "none"

\* the estimation formulas that ran on record i of d during init:
\* estimateTimePerGame computes the increment-based estimate of a record
\* whose code has a '+', getTimeControlOptions the duration-based one of a
\* record that has both timestamps
FormulasApplied(d, i) ==
  (IF d[i].increment_code # NoCode /\ Includes(d[i].increment_code, "+")
     THEN {"increment"} ELSE {})
  \cup
  (IF EstimatesFromDuration(d) /\ d[i].created_at # 0 /\ d[i].last_move_at # 0
     THEN {"duration"} ELSE {})

(***************************************************************************)
(* SpecPage: games.csv is loaded, the page initializes, and the user       *)
(* changes the filter controls, clicks "filter" and submits searches       *)
(***************************************************************************)
PageBase ==
  [BaseGame EXCEPT !.rated = [type |-> "string", text |-> "TRUE"],
                   !.estimated_time_control = Absent]

\* the rows as d3.csv delivers them
PageGames ==
  { PageBase,
    [PageBase EXCEPT !.opening_name = <<"b">>,
                     !.rated = [type |-> "string", text |-> "FALSE"]],
    [PageBase EXCEPT !.opening_name = <<"a", ":", "x">>,
                     !.white_rating = 1450, !.black_rating = 1580],
    [PageBase EXCEPT !.rated = [type |-> "boolean", text |-> "true"]],
    [PageBase EXCEPT !.increment_code = NoCode] }

SearchPool == {<<>>, <<"A">>, <<"x">>}

InitPage ==
  /\ csv \in SeqsUpTo(PageGames, MaxPage)
  /\ data = <<>>
  /\ filters = InitialFilters
  /\ controls = EmptyControls
  /\ shown = <<>>
  /\ applied = <<>>
  /\ edits = 0
  /\ ChartIdle
  /\ thrown = "none"
  /\ op = "none"
  /\ arg = NoCall
  /\ result = <<>>
  /\ bounds = NoBounds
  /\ name = <<>>
  /\ passes = 0

\* setupEventListeners ran: init reached its last statement
Listening == op \notin {"none", "init"} \/ (op = "init" /\ thrown = "none")

\* The callback of d3.csv(...).then: estimateTimePerGame writes its label on
\* each row, the controls are filled, the filters are read from them and the
\* visualizations are drawn
LoadData ==
  /\ op = "none"
  /\ op' = "init"
  /\ data' = estimateTimePerGame(csv)
  /\ bounds' = getEloRange(data')
  /\ controls' = initializeFilters(data')
  /\ filters' = updateFilters(controls', filters)
  /\ shown' = Drawn(data', filters')
  /\ thrown' = Raised(data', filters')
  /\ applied' = [i \in 1..Len(data') |-> FormulasApplied(data', i)]
  /\ UNCHANGED <<csv, edits, arg, result, name, passes, chartVars>>

\* the changes of controls followed in a session: one more over a single row
EditBudget(rows) == MaxEdits + (IF Len(rows) <= 1 THEN 1 ELSE 0)

\* a change of a control: no handler of it touches state
Edit(c) ==
  /\ op # "none"
  /\ edits < EditBudget(csv)
  /\ edits' = edits + 1
  /\ controls' = c
  /\ UNCHANGED <<data, op, arg, result, bounds, name, passes, thrown, csv,
                 filters, shown, applied, chartVars>>

Toggle(set, x) == IF x \in set THEN set \ {x} ELSE set \cup {x}

\* an opening checkbox changes; "select all" follows
ToggleOpening ==
  \E i \in 1..Len(controls.openings) :
    LET checked == Toggle(controls.openingChecked, controls.openings[i])
    IN Edit([controls EXCEPT
               !.openingChecked = checked,
               !.selectAll = \A k \in 1..Len(controls.openings) :
                                controls.openings[k] \in checked])

\* "select all" changes; every opening checkbox follows
ToggleSelectAll ==
  Edit([controls EXCEPT
          !.selectAll = ~controls.selectAll,
          !.openingChecked =
             IF controls.selectAll THEN {}
             ELSE {controls.openings[k] : k \in 1..Len(controls.openings)}])

\* the user picks a minimum; a maximum not above it moves one step above
ChangeEloMin ==
  \E v \in EloMinOptions(bounds) :
    /\ controls.eloMin # <<v>>
    /\ Edit([controls EXCEPT
               !.eloMin = <<v>>,
               !.eloMax =
                  IF controls.eloMax # <<>> /\ v >= controls.eloMax[1]
                    THEN SelectValue(EloMaxOptions(bounds),
                                     Min2(v + 100, bounds.max.v))
                    ELSE @])

\* the user picks a maximum; a minimum not below it moves one step below
ChangeEloMax ==
  \E v \in EloMaxOptions(bounds) :
    /\ controls.eloMax # <<v>>
    /\ Edit([controls EXCEPT
               !.eloMax = <<v>>,
               !.eloMin =
                  IF controls.eloMin # <<>> /\ v <= controls.eloMin[1]
                    THEN SelectValue(EloMinOptions(bounds),
                                     IF v - 100 >= bounds.min.v
                                       THEN v - 100 ELSE bounds.min.v)
                    ELSE @])

ToggleColor ==
  \E c \in {"white", "black"} :
    Edit([controls EXCEPT !.color = Toggle(@, c)])

ToggleGameType ==
  \E t \in {"rated", "casual"} :
    Edit([controls EXCEPT !.gameType = Toggle(@, t)])

ToggleTimeControl ==
  \E i \in 1..Len(controls.timeOptions) :
    Edit([controls EXCEPT !.timeChecked = Toggle(@, controls.timeOptions[i])])

\* the user types in the search input
TypeSearch ==
  \E s \in SearchPool :
    /\ controls.search # s
    /\ Edit([controls EXCEPT !.search = s])

\* redrawVisualizations with state.filters = f, filtering what is drawn
\* already
RedrawOfShown(handler, f) ==
  /\ Listening
  /\ op' = handler
  /\ filters' = f
  /\ shown' = Drawn(shown, f)
  /\ thrown' = Raised(data, f)
  /\ result' = shown
  /\ UNCHANGED <<data, arg, bounds, name, passes, csv, controls, applied,
                 edits, chartVars>>

\* redrawVisualizations with state.filters = f; result keeps the records of
\* the drawing it replaces
Redraw(handler, f) ==
  /\ Listening
  /\ op' = handler
  /\ filters' = f
  /\ shown' = Drawn(data, f)
  /\ thrown' = Raised(data, f)
  /\ result' = shown
  /\ UNCHANGED <<data, arg, bounds, name, passes, csv, controls, applied,
                 edits, chartVars>>

\* click on #filter-button
ClickFilter == Redraw("filterClick", updateFilters(controls, filters))

\* a search submission that reads the five selections as well
ClickSearchReadingControls ==
  Redraw("searchClick",
         [updateFilters(controls, filters) EXCEPT !.search = controls.search])

\* click on #search-button
ClickSearch ==
  Redraw("searchClick", [filters EXCEPT !.search = controls.search])

\* Enter in #search-input
EnterSearch ==
  Redraw("searchEnter", [filters EXCEPT !.search = controls.search])

NextPage ==
  \/ LoadData
  \/ ToggleOpening
  \/ ToggleSelectAll
  \/ ChangeEloMin
  \/ ChangeEloMax
  \/ ToggleColor
  \/ ToggleGameType
  \/ ToggleTimeControl
  \/ TypeSearch
  \/ ClickFilter
  \/ ClickSearch
  \/ EnterSearch

SpecPage == InitPage /\ [][NextPage]_vars

\* s is t with some elements left out, the others in the order of t
RECURSIVE IsSubsequence(_, _)
IsSubsequence(s, t) ==
  IF s = <<>> THEN TRUE
  ELSE IF t = <<>> THEN FALSE
  ELSE IF Head(s) = Head(t) THEN IsSubsequence(Tail(s), Tail(t))
  ELSE IsSubsequence(s, Tail(t))

\* the handlers that end in redrawVisualizations; a step into one of them
\* that leaves the controls alone is a run of that handler
RedrawHandlers == {"filterClick", "searchClick", "searchEnter"}

\* C12: applyFilters is pure and order-preserving: the records drawn are
\* records of state.data, unaltered and in the order of state.data; a redraw
\* leaves state.data and its records as they were, and leaves state.filters
\* as the handler set it before drawing (the filter click reads it from the
\* controls, a search replaces only the search term).
C12_FiltersPureOrderPreserving ==
  /\ [](IsSubsequence(shown, data))
  /\ [][op' \in RedrawHandlers /\ controls' = controls =>
          /\ data' = data
          /\ op' = "filterClick" => filters' = updateFilters(controls, filters)
          /\ op' # "filterClick" =>
               filters' = [filters EXCEPT !.search = controls.search]]_vars

\* A filter click kept the second of two different records and dropped the
\* first
C12_Witness ==
  /\ op = "filterClick"
  /\ thrown = "none"
  /\ Len(data) = 2
  /\ data[1] # data[2]
  /\ shown = <<data[2]>>

\* C13: the rated/casual predicate coerces `rated` by one rule whether it is
\* a string or a boolean, as getOpeningUsageByElo does, and never throws:
\* every draw returns, and each record drawn has its game type among the
\* selected ones.
C13_RatedCoercedWithoutThrow ==
  /\ thrown = "none"
  /\ \A i \in 1..Len(shown) :
       InArray(filters.gameType,
               IF RatedValue(shown[i]) THEN "rated" ELSE "casual")

InRange(rating, f) == f.elo.min <= rating /\ rating <= f.elo.max

\* the tests of applyFilters other than the Elo test
PassesOthers(g, f) ==
  /\ PassesOpening(g, f)
  /\ PassesGameType(g, f)
  /\ PassesTimeControl(g, f)
  /\ PassesSearch(g, f)

\* C14: the Elo predicate applies to white_rating when only White is
\* selected and to black_rating when only Black is; with both colours
\* selected a record passes if either rating lies in [min, max].
C14_EloEitherColour ==
  op # "none" /\ thrown = "none" /\ filters.color # <<>> =>
    \A i \in 1..Len(data) :
      PassesOthers(data[i], filters) =>
        (InArray(shown, data[i]) <=>
           \/ /\ InArray(filters.color, "white")
              /\ InRange(data[i].white_rating, filters)
           \/ /\ InArray(filters.color, "black")
              /\ InRange(data[i].black_rating, filters))

\* C15: a record is kept iff it satisfies every active predicate (opening
\* membership, Elo range, rated/casual, time control, search on the raw
\* name), and a criterion with nothing selected imposes no constraint.
C15_KeptIffActivePredicates ==
  op # "none" /\ thrown = "none" =>
    \A i \in 1..Len(data) :
      InArray(shown, data[i]) <=>
        /\ filters.opening = <<>> \/ PassesOpening(data[i], filters)
        /\ PassesElo(data[i], filters)
        /\ \/ filters.gameType = <<>>
           \/ InArray(filters.gameType,
                      IF RatedValue(data[i]) THEN "rated" ELSE "casual")
        /\ filters.timeControl = <<>> \/ PassesTimeControl(data[i], filters)
        /\ PassesSearch(data[i], filters)

\* C18: the increment-based and the duration-based estimate are never both
\* applied to the same record in a session.
C18_OneFormulaPerRecord ==
  \A i \in 1..Len(applied) : applied[i] # {"increment", "duration"}

\* C19: no operation mutates a loaded record: state.data holds the rows with
\* exactly the fields and values they had when loaded.
C19_RecordsNeverMutated ==
  op # "none" => data = csv

\* the sum of the relativeCount of the cells of an Elo column
ColumnRelative(cells, range) ==
  LET RECURSIVE Sum(_)
      Sum(k) == IF k = 0 THEN Zero
                ELSE IF cells[k].eloRange = range
                  THEN AddFraction(Sum(k - 1), cells[k].relativeCount)
                  ELSE Sum(k - 1)
  IN Sum(Len(cells))

\* C20: in getOpeningUsageByElo each cell's relativeCount is 100 * count
\* divided by the sum of the counts of its Elo column over the returned
\* openings: the relativeCount of a column whose total is positive add up to
\* 100, and every relativeCount of a column whose total is 0 is 0.
C20_RelativeCountOfColumn ==
  op = "getOpeningUsageByElo" =>
    \A k \in 1..Len(result.data) :
      LET cell == result.data[k]
          total == ColumnTotal(result.data, cell.eloRange)
      IN /\ total > 0 =>
              /\ cell.relativeCount.den # 0
              /\ cell.relativeCount.num * total
                   = 100 * cell.count * cell.relativeCount.den
              /\ IsHundred(ColumnRelative(result.data, cell.eloRange))
         /\ total = 0 => IsExactlyZero(cell.relativeCount)

\* Two openings share an Elo column, and another column of the result has a
\* different total
C20_Witness ==
  /\ op = "getOpeningUsageByElo"
  /\ \E k, m \in 1..Len(result.data) :
       /\ result.data[k].eloRange = result.data[m].eloRange
       /\ result.data[k].opening # result.data[m].opening
       /\ result.data[k].count > 0
       /\ result.data[m].count > 0
  /\ \E k, m \in 1..Len(result.data) :
       ColumnTotal(result.data, result.data[k].eloRange)
         # ColumnTotal(result.data, result.data[m].eloRange)

\* the opening families of a dataset, as getNOpeningVariations names them
VariationFamilies(d) ==
  {CleanNameVariations(d[i].opening_name) : i \in 1..Len(d)}

\* C21: getNOpeningVariations(data, n) lists the opening families by
\* descending game count and returns exactly min(n, number of distinct
\* families) of them; each family's count is the number of its records and
\* a family without an explicit variation has an empty variations map.
C21_VariationsTopN ==
  op = "getNOpeningVariations" =>
    /\ Len(result) = Min2(arg.v, Cardinality(VariationFamilies(data)))
    /\ \A i \in 1..(Len(result) - 1) : result[i].count >= result[i + 1].count
    /\ \A i \in 1..Len(result) :
         /\ result[i].count =
              Cardinality({k \in 1..Len(data) :
                 CleanNameVariations(data[k].opening_name) = result[i].name})
         /\ (\A k \in 1..Len(data) :
               CleanNameVariations(data[k].opening_name) = result[i].name
                 => VariationOf(data[k].opening_name) = <<>>)
              => result[i].variations = <<>>

\* the games of a family that carry the variation a leaf stands for: all of
\* them for the leaf of a family without variation
RawLeafGames(d, family, leaf) ==
  IF \A k \in 1..Len(d) :
       CleanNameVariations(d[k].opening_name) = family
         => VariationOf(d[k].opening_name) = <<>>
    THEN Cardinality({k \in 1..Len(d) :
           CleanNameVariations(d[k].opening_name) = family})
    ELSE Cardinality({k \in 1..Len(d) :
           /\ CleanNameVariations(d[k].opening_name) = family
           /\ VariationOf(d[k].opening_name) # <<>>
           /\ leaf = (IF CleanVariation(VariationOf(d[k].opening_name)) = <<>>
                        THEN Principal
                        ELSE CleanVariation(VariationOf(d[k].opening_name)))})

\* C22: the inflation factor affects only the circle sizes: the family
\* total of the title tooltip is the family's raw game count, and the hover
\* tooltip of a leaf reports its raw game count out of that total and the
\* share the two make, also for a family without explicit variation.
C22_ReportedFromRawCounts ==
  op = "CirclePackingVisualization.draw" =>
    \A i \in 1..Len(result) :
      LET family == result[i].name
          total == Cardinality({k \in 1..Len(data) :
                     CleanNameVariations(data[k].opening_name) = family})
      IN /\ result[i].totalGames = total
         /\ \A j \in 1..Len(result[i].leaves) :
              LET leaf == result[i].leaves[j]
                  games == RawLeafGames(data, family, leaf.name)
              IN /\ leaf.games = games
                 /\ leaf.outOf = total
                 /\ leaf.percentage.den # 0
                 /\ leaf.percentage.num * total
                      = 100 * games * leaf.percentage.den

\* C23: in the initial filter state (every checkbox checked, the Elo selects
\* at the minimum and the maximum, an empty search) applyFilters keeps every
\* loaded record: the first drawing shows the whole dataset.
C23_InitialFiltersKeepAll ==
  op = "init" => thrown = "none" /\ shown = data

\* C24: after any sequence of Filter clicks and search submissions, the
\* records handed to the visualizations are applyFilters of the complete
\* loaded dataset under the current state.filters: filters never compound,
\* and widening a filter brings back the records it had removed.
C24_DrawnFromCompleteData ==
  op # "none" /\ thrown = "none" => shown = applyFilters(data, filters)

\* A Filter click after a widening drew a record that the drawing before it
\* had left out
C24_Witness ==
  /\ op = "filterClick"
  /\ thrown = "none"
  /\ edits >= 2
  /\ \E i \in 1..Len(shown) :
       \A k \in 1..Len(result) : result[k] # shown[i]

\* the five selections of state.filters, without the search term
Selections(f) ==
  [opening |-> f.opening, elo |-> f.elo, color |-> f.color,
   gameType |-> f.gameType, timeControl |-> f.timeControl]

\* C25: a search submission changes only state.filters.search and leaves the
\* five selections as they were, even when controls were edited since the
\* last Filter click; a Filter click sets the five selections from the
\* controls and leaves the search term as it was.
C25_SearchAndSelectionsApart ==
  [][controls' = controls =>
       /\ op' \in {"searchClick", "searchEnter"} =>
            /\ Selections(filters') = Selections(filters)
            /\ filters'.search = controls.search
       /\ op' = "filterClick" =>
            /\ filters'.search = filters.search
            /\ Selections(filters')
                 = Selections(updateFilters(controls, filters))]_vars

\* A search was submitted with a new term while the controls differ from the
\* selections of the last Filter click
C25_Witness ==
  /\ op \in {"searchClick", "searchEnter"}
  /\ data # <<>>
  /\ filters.search # <<>>
  /\ Selections(updateFilters(controls, filters)) # Selections(filters)

(***************************************************************************)
(* Pagination of the stacked-bar chart (StackedBarVisualization), the      *)
(* heatmap (HeatmapVisualization) and the line chart                       *)
(* (LineChartVisualization).  Each chart is followed on its own; its next  *)
(* button is disabled exactly when the guard of its handler is false.      *)
(***************************************************************************)
LineChartItemsPerPage == 5

Charts ==
  {"StackedBarVisualization", "HeatmapVisualization", "LineChartVisualization"}

\* options.numOpenings / options.itemsPerPage of the first two charts; the
\* line chart has a fixed page size
PageSizes(c) ==
  IF c = "LineChartVisualization" THEN {LineChartItemsPerPage}
  ELSE 1..MaxPerPage

\* array.slice(start, end) for 0 <= start <= end
Slice(a, start, end) ==
  [i \in 1..(Min2(end, Len(a)) - Min2(start, Len(a))) |->
     a[Min2(start, Len(a)) + i]]

\* the items of the page on screen
getCurrentPageData(full, page, size) ==
  Slice(full, page * size, page * size + size)

\* Math.floor(length / itemsPerPage)
MaxPageOf(full, size) == Len(full) \div size

\* Math.ceil(length / itemsPerPage)
TotalPages(full, size) == (Len(full) + size - 1) \div size

\* `Page ${currentPage + 1} sur ${totalPages}`
updatePageIndicator(full, page, size) ==
  [current |-> page + 1, total |-> TotalPages(full, size)]

\* the heatmap creates its buttons only for a list longer than a page
HasPaginationControls ==
  chart = "HeatmapVisualization" => Len(fullData) > itemsPerPage

\* no aggregation call is pending and no page is open
AggIdle ==
  /\ data = <<>>
  /\ op = "none"
  /\ arg = NoCall
  /\ result = <<>>
  /\ bounds = NoBounds
  /\ name = <<>>
  /\ passes = 0
  /\ thrown = "none"
  /\ csv = <<>>
  /\ filters = <<>>
  /\ controls = <<>>
  /\ shown = <<>>
  /\ applied = <<>>
  /\ edits = 0

\* draw(data) of a chart with a non-empty list: page 0
InitPaging ==
  /\ AggIdle
  /\ chart \in Charts
  /\ itemsPerPage \in PageSizes(chart)
  /\ \E len \in 1..MaxItems : fullData = [i \in 1..len |-> i]
  /\ currentPage = 0
  /\ isShowingVictory = FALSE
  /\ winLegend = ""
  /\ victoryLegend = ""
  /\ transitions = <<>>
  /\ clicks = 0

PagingFrame ==
  UNCHANGED <<data, arg, result, bounds, name, passes, thrown, csv, filters,
              controls, shown, applied, edits, chart, fullData, itemsPerPage,
              isShowingVictory, winLegend, victoryLegend, transitions, clicks>>

StackedBarGoToNextPage ==
  /\ chart = "StackedBarVisualization"
  /\ op' = "goToNextPage"
  /\ currentPage' = IF currentPage < MaxPageOf(fullData, itemsPerPage)
                      THEN currentPage + 1 ELSE currentPage
  /\ PagingFrame

StackedBarGoToPreviousPage ==
  /\ chart = "StackedBarVisualization"
  /\ op' = "goToPreviousPage"
  /\ currentPage' = IF currentPage > 0 THEN currentPage - 1 ELSE currentPage
  /\ PagingFrame

HeatmapGoToNextPage ==
  /\ chart = "HeatmapVisualization"
  /\ HasPaginationControls
  /\ op' = "goToNextPage"
  /\ currentPage' = IF currentPage < MaxPageOf(fullData, itemsPerPage)
                      THEN currentPage + 1 ELSE currentPage
  /\ PagingFrame

HeatmapGoToPreviousPage ==
  /\ chart = "HeatmapVisualization"
  /\ HasPaginationControls
  /\ op' = "goToPreviousPage"
  /\ currentPage' = IF currentPage > 0 THEN currentPage - 1 ELSE currentPage
  /\ PagingFrame

\* the click handler of the line chart's next button
LineChartNextClick ==
  /\ chart = "LineChartVisualization"
  /\ op' = "goToNextPage"
  /\ currentPage' = IF currentPage < MaxPageOf(fullData, itemsPerPage)
                      THEN currentPage + 1 ELSE currentPage
  /\ PagingFrame

\* the click handler of the line chart's previous button
LineChartPreviousClick ==
  /\ chart = "LineChartVisualization"
  /\ op' = "goToPreviousPage"
  /\ currentPage' = IF currentPage > 0 THEN currentPage - 1 ELSE currentPage
  /\ PagingFrame

NextPaging ==
  \/ StackedBarGoToNextPage
  \/ StackedBarGoToPreviousPage
  \/ HeatmapGoToNextPage
  \/ HeatmapGoToPreviousPage
  \/ LineChartNextClick
  \/ LineChartPreviousClick

SpecPaging == InitPaging /\ [][NextPaging]_vars

\* C26: in every paginated chart, after any next / previous clicks on a
\* non-empty list of length L with page size s, the page index p satisfies
\* 0 <= p < ceil(L / s): the slice on screen is never empty and the
\* indicator never exceeds the total number of pages, also when L is an
\* exact multiple of s.
C26_PageWithinTotal ==
  chart \in Charts /\ fullData # <<>> =>
    /\ 0 <= currentPage
    /\ currentPage < TotalPages(fullData, itemsPerPage)
    /\ getCurrentPageData(fullData, currentPage, itemsPerPage) # <<>>
    /\ updatePageIndicator(fullData, currentPage, itemsPerPage).current
         <= updatePageIndicator(fullData, currentPage, itemsPerPage).total

(***************************************************************************)
(* The chart-type toggle of the stacked-bar chart                          *)
(* (viz2-stacked-bar/viz.js).  Every transition lasts 500 ms, so the       *)
(* running transitions end in the order they were created.  A transition   *)
(* created on an element interrupts the one running on that element, and   *)
(* an interrupted transition never dispatches "end" (d3-transition).       *)
(***************************************************************************)
TransitionMs == 500

\* selection.transition().style('opacity', o) on element e, with the
\* listener of its "end"
Transition(running, e, o, listener) ==
  SelectSeq(running, LAMBDA t : t.element # e)
    \o <<[element |-> e, opacity |-> o, end |-> listener,
          duration |-> TransitionMs]>>

\* a legend: its style.display and the opacity the last transition that
\* ended on it left
Legend(display, opacity) == [display |-> display, opacity |-> opacity]

\* style.display of a legend that is on screen
Displayed(legend) == legend.display # "none"

\* draw(data) ran: createLegends hid the victory legend
InitToggle ==
  /\ AggIdle
  /\ chart = "StackedBarVisualization"
  /\ fullData = <<>>
  /\ itemsPerPage = 0
  /\ currentPage = 0
  /\ isShowingVictory = FALSE
  /\ winLegend = Legend("", 1)
  /\ victoryLegend = Legend("none", 0)
  /\ transitions = <<>>
  /\ clicks = 0

ToggleFrame ==
  UNCHANGED <<data, arg, result, bounds, name, passes, thrown, csv, filters,
              controls, shown, applied, edits, chart, fullData, itemsPerPage,
              currentPage>>

\* a click on #toggle-victory-chart, at any time
toggleChartType ==
  /\ clicks < MaxClicks
  /\ clicks' = clicks + 1
  /\ op' = "toggleChartType"
  /\ isShowingVictory' = ~isShowingVictory
  /\ transitions' =
       IF isShowingVictory'
         THEN Transition(
                Transition(
                  Transition(transitions, "winsByColorGroup", 0, "none"),
                  "winLegend", 0, "showVictoryLegend"),
                "victoryStatusGroup", 1, "none")
         ELSE Transition(
                Transition(
                  Transition(transitions, "victoryStatusGroup", 0, "none"),
                  "victoryLegend", 0, "showWinLegend"),
                "winsByColorGroup", 1, "none")
  /\ UNCHANGED <<winLegend, victoryLegend>>
  /\ ToggleFrame

\* the legend an ended transition leaves, d being its style.display now
Faded(legend, e, ended, d) ==
  Legend(d, IF ended.element = e THEN ended.opacity ELSE legend.opacity)

\* the oldest running transition ends at its opacity; its "end" listener,
\* if any, swaps the legends and fades the new one in
TransitionEnd ==
  /\ transitions # <<>>
  /\ op' = "transitionEnd"
  /\ LET ended == Head(transitions)
     IN CASE ended.end = "showVictoryLegend" ->
               /\ winLegend' = Faded(winLegend, "winLegend", ended, "none")
               /\ victoryLegend' =
                    Faded(victoryLegend, "victoryLegend", ended, "block")
               /\ transitions' =
                    Transition(Tail(transitions), "victoryLegend", 1, "none")
          [] ended.end = "showWinLegend" ->
               /\ victoryLegend' =
                    Faded(victoryLegend, "victoryLegend", ended, "none")
               /\ winLegend' = Faded(winLegend, "winLegend", ended, "block")
               /\ transitions' =
                    Transition(Tail(transitions), "winLegend", 1, "none")
          [] OTHER ->
               /\ winLegend' =
                    Faded(winLegend, "winLegend", ended, winLegend.display)
               /\ victoryLegend' =
                    Faded(victoryLegend, "victoryLegend", ended,
                          victoryLegend.display)
               /\ transitions' = Tail(transitions)
  /\ UNCHANGED <<isShowingVictory, clicks>>
  /\ ToggleFrame

NextToggle ==
  \/ toggleChartType
  \/ TransitionEnd

SpecToggle == InitToggle /\ [][NextToggle]_vars

\* C27: after any toggle clicks, whatever their timing (a second click
\* before the 500 ms transitions end included), once every pending
\* transition-end callback has run exactly one legend is displayed, and it
\* is the one isShowingVictory selects.
C27_LegendFollowsToggle ==
  chart = "StackedBarVisualization" /\ clicks > 0 /\ transitions = <<>> =>
    /\ Displayed(victoryLegend) <=> isShowingVictory
    /\ Displayed(winLegend) <=> ~isShowingVictory

\* the games of opening nm counted in the first k ranges of a result of
\* getWinRateByOpeningAcrossEloRanges
RECURSIVE TotalAcrossRanges(_, _, _)
TotalAcrossRanges(ranges, k, nm) ==
  IF k = 0 THEN 0
  ELSE TotalAcrossRanges(ranges, k - 1, nm)
         + (IF HasKey(ranges[k].openings, nm)
              THEN Lookup(ranges[k].openings, nm).total ELSE 0)

\* C28: getWinRateByOpeningAcrossEloRanges counts every game in exactly one
\* Elo band: for each opening, the sum of `total` over the returned ranges
\* is the number of input games of that opening; no game is lost at a
\* half-integer average such as 1099.5 or when the largest average is a
\* multiple of 100.
C28_EveryGameInOneBand ==
  op = "getWinRateByOpeningAcrossEloRanges" =>
    \A i \in 1..Len(data) :
      LET nm == CleanName(data[i].opening_name)
      IN TotalAcrossRanges(result, Len(result), nm)
           = Cardinality({k \in 1..Len(data) :
                            CleanName(data[k].opening_name) = nm})

\* the sum of a count field ("whiteCount" or "blackCount") over the first k
\* cells
RECURSIVE SumOverCells(_, _, _)
SumOverCells(cells, k, field) ==
  IF k = 0 THEN 0
  ELSE SumOverCells(cells, k - 1, field)
         + (IF field = "whiteCount" THEN cells[k].whiteCount
            ELSE cells[k].blackCount)

\* C29: getOpeningUsageByElo loses no player: with colorFilter 'both' the
\* whiteCount of all cells and the blackCount of all cells each add up to
\* the number of records that pass the filters; the result is not empty
\* when every rating lies in one band, and the highest band is counted.
C29_NoPlayerLost ==
  op = "getOpeningUsageByElo" /\ arg.colorFilter = "both" =>
    LET passing == Len(UsageFiltered(data, arg.filterType, arg.timeControl))
    IN /\ SumOverCells(result.data, Len(result.data), "whiteCount") = passing
       /\ SumOverCells(result.data, Len(result.data), "blackCount") = passing

\* the games of the family nm in d, as getOpeningStats names families
GamesOfFamily(d, nm) ==
  Cardinality({k \in 1..Len(d) : CleanName(d[k].opening_name) = nm})

\* C30: getOpeningStats returns one entry per opening family, each carrying
\* its `total` next to averageTurns and averagePly, ordered by
\* non-increasing total.
C30_StatsCarryTotalAndOrder ==
  op = "getOpeningStats" =>
    /\ Len(result)
         = Cardinality({CleanName(data[k].opening_name) : k \in 1..Len(data)})
    /\ \A i \in 1..Len(result) :
         /\ {"total", "averageTurns", "averagePly"} \subseteq DOMAIN result[i]
         /\ result[i].total = GamesOfFamily(data, result[i].name)
    /\ \A i \in 1..(Len(result) - 1) :
         GamesOfFamily(data, result[i].name)
           >= GamesOfFamily(data, result[i + 1].name)

====
